---------------------------- MODULE Spec2Model ----------------------------
(* Model of panmirror's pandoc API helpers (editor/src/api/pandoc.ts):     *)
(* format negotiation (pandocFormat, parseExtensions, splitFormat,         *)
(* pandocFormatWith) and the token tree utilities (tokensCollectText,      *)
(* forEachToken, mapTokens).                                               *)
(* Strings are sequences of one-character strings; indices into them are   *)
(* 0-based where the source's are (indexOf, substr), so that the           *)
(* translation can be compared with the TypeScript line by line.           *)
EXTENDS Integers, Sequences, FiniteSets, TLC

VARIABLES
  engine,      \* the PandocEngine: dialect name -> text of listExtensions
  pc,          \* per invocation of pandocFormat: position in the function
  request,     \* per invocation: the `format` argument
  frame,       \* activation records of pandocFormat (its local variables)
  calls,       \* per invocation: dialects passed to listExtensions, in order
  replies,     \* per invocation: what the engine answered, in order
  outcome,     \* per invocation: the settled promise
  withArgs,    \* arguments of a pandocFormatWith call
  withResult,  \* its return value
  heap,        \* token objects: address -> [t, c]
  heap0,       \* the heap as it was when the utility was called
  tokens,      \* the caller's top-level token array (an array value)
  lastOp,      \* which tree utility ran last, and with which callback
  returned,    \* its return value
  visited      \* addresses handed to forEachToken's callback, in call order

vars == <<engine, pc, request, frame, calls, replies, outcome,
          withArgs, withResult, heap, heap0, tokens, lastOp, returned, visited>>

negotiationVars == <<engine, pc, request, frame, calls, replies, outcome>>
withVars == <<withArgs, withResult>>
tokenVars == <<heap, heap0, tokens, lastOp, returned, visited>>

-----------------------------------------------------------------------------
(* Bounds *)

MaxOptions == 2        \* sign+name entries in a request's option string
MaxListLen == 2        \* entries in a listExtensions answer
NumInvocations == 2    \* pandocFormat invocations in flight together
MaxForestLen == 2      \* tokens in the top-level array
MaxArrayLen == 2       \* elements in a child array

-----------------------------------------------------------------------------
(* Strings *)

PLUS == "+"
MINUS == "-"
NL == "\n"
COMMA == ","

Lower == {"a","b","c","d","e","f","g","h","i","j","k","l","m",
          "n","o","p","q","r","s","t","u","v","w","x","y","z"}

\* the character class [a-z_] of parseExtensions' regular expression
NameChars == Lower \cup {"_"}

markdown == <<"m","a","r","k","d","o","w","n">>
markdown_phpextra == markdown \o <<"_","p","h","p","e","x","t","r","a">>
markdown_github == markdown \o <<"_","g","i","t","h","u","b">>
markdown_mmd == markdown \o <<"_","m","m","d">>
markdown_strict == markdown \o <<"_","s","t","r","i","c","t">>
gfm == <<"g","f","m">>
commonmark == <<"c","o","m","m","o","n","m","a","r","k">>
docbook == <<"d","o","c","b","o","o","k">>

footnotes == <<"f","o","o","t","n","o","t","e","s">>
smart == <<"s","m","a","r","t">>
emoji == <<"e","m","o","j","i">>
bogus_ext == <<"b","o","g","u","s","_","e","x","t">>

\* the one property name a plain object does not store: assigning to it
\* calls the setter of Object.prototype
proto == <<"_","_","p","r","o","t","o","_","_">>

\* String.prototype.indexOf for a one-character needle (0-based, -1 if absent)
IndexOf(s, ch) ==
  IF \E i \in 1..Len(s) : s[i] = ch
  THEN (CHOOSE i \in 1..Len(s) : s[i] = ch /\ \A j \in 1..(i-1) : s[j] # ch) - 1
  ELSE -1

\* s.substr(0, n)
SubstrTo(s, n) == SubSeq(s, 1, n)

\* s.substr(n)
SubstrFrom(s, n) == SubSeq(s, n + 1, Len(s))

\* s.replace(/\+/g, '-')
ReplacePlus(s) == [i \in 1..Len(s) |-> IF s[i] = PLUS THEN MINUS ELSE s[i]]

\* s.split('\n').join(): join's default separator is a comma
SplitJoin(s) == [i \in 1..Len(s) |-> IF s[i] = NL THEN COMMA ELSE s[i]]

-----------------------------------------------------------------------------
(* splitFormat, pandocFormatWith *)

SplitPos(format) ==
  IF IndexOf(format, MINUS) = -1 THEN IndexOf(format, PLUS)
  ELSE IndexOf(format, MINUS)

splitFormat(format) ==
  LET optionsPos == SplitPos(format)
  IN  [format  |-> IF optionsPos = -1 THEN format ELSE SubstrTo(format, optionsPos),
       options |-> IF optionsPos = -1 THEN <<>> ELSE SubstrFrom(format, optionsPos)]

pandocFormatWith(format, prepend, append) ==
  LET split == splitFormat(format)
  IN  split.format \o prepend \o split.options \o append

-----------------------------------------------------------------------------
(* parseExtensions *)

\* end (1-based, inclusive) of the longest run of [a-z_] starting at i
RECURSIVE NameEnd(_, _)
NameEnd(s, i) ==
  IF i + 1 <= Len(s) /\ s[i + 1] \in NameChars THEN NameEnd(s, i + 1) ELSE i

\* one re.exec(options) with re.lastIndex = from - 1: the leftmost match of
\* /([+-])([a-z_]+)/ at or after position `from` (1-based), or 0 for null
MatchAt(s, from) ==
  LET hits == {i \in from..(Len(s) - 1) :
                 s[i] \in {PLUS, MINUS} /\ s[i + 1] \in NameChars}
  IN  IF hits = {} THEN 0 ELSE CHOOSE i \in hits : \A j \in hits : i <= j

\* the while (match) loop
RECURSIVE ExecLoop(_, _)
ExecLoop(s, from) ==
  LET m == MatchAt(s, from)
  IN  IF m = 0 THEN <<>>
      ELSE LET e == NameEnd(s, m + 1)
           IN  <<[name |-> SubSeq(s, m + 1, e), enabled |-> (s[m] = PLUS)]>>
               \o ExecLoop(s, e + 1)

parseExtensions(options) == ExecLoop(SplitJoin(options), 1)


-----------------------------------------------------------------------------
(* pandocFormat *)

\* the base formats pandocFormat accepts
SupportedFormats == {markdown, markdown_phpextra, markdown_github,
                     markdown_mmd, markdown_strict, gfm, commonmark}

\* the formats expressed as deltas on top of markdown
DeltaFormats == {gfm, commonmark}

EngineErrors == {"EPIPE", "EBADMSG"}

Invocations == 1..NumInvocations

\* as if warnings, baseName, options, formatOptions and validOptions were
\* module-level variables, shared by every invocation
FrameShared(p) == 1

\* each invocation of the async function has its own activation record
FrameOf(p) == p

\* m[k] = v on an object created by {}, v a boolean: an own property is set,
\* except that m['__proto__'] = v goes to the inherited setter, which
\* ignores a value that is neither an object nor null
Put(m, k, v) ==
  IF k = proto THEN m
  ELSE [x \in (DOMAIN m) \cup {k} |-> IF x = k THEN v ELSE m[x]]

EmptyMap == [x \in {} |-> FALSE]

\* from `let warnings` to the fallback to markdown
Enter(format) ==
  LET split == splitFormat(format)
      known == split.format \in SupportedFormats
  IN  [split         |-> split,
       warnings      |-> [invalidFormat  |-> IF known THEN <<>> ELSE split.format,
                          invalidOptions |-> <<>>],
       baseName      |-> IF known THEN split.format ELSE markdown,
       options       |-> split.options,
       formatOptions |-> <<>>,
       validOptions  |-> <<>>]

\* parseExtensions(formatOptions).forEach(option => pandocExtensions[...] = ...)
RECURSIVE FormatExtensions(_, _)
FormatExtensions(descs, m) ==
  IF descs = <<>> THEN m
  ELSE FormatExtensions(Tail(descs), Put(m, Head(descs).name, Head(descs).enabled))

\* parseExtensions(validOptions).map(option => option.name)
ValidOptionNames(validOptions) ==
  LET descs == parseExtensions(validOptions)
  IN  [i \in 1..Len(descs) |-> descs[i].name]

Includes(seq, x) == \E i \in 1..Len(seq) : seq[i] = x

\* parseExtensions(options).forEach(option => ...) over the user's options;
\* acc holds fullName, pandocExtensions and warnings.invalidOptions
RECURSIVE UserOptions(_, _, _)
UserOptions(descs, validOptionNames, acc) ==
  IF descs = <<>> THEN acc
  ELSE LET option == Head(descs)
       IN  IF Includes(validOptionNames, option.name)
           THEN UserOptions(Tail(descs), validOptionNames,
                  [acc EXCEPT
                     !.fullName = @ \o <<IF option.enabled THEN PLUS ELSE MINUS>>
                                    \o option.name,
                     !.extensions = Put(@, option.name, option.enabled)])
           ELSE UserOptions(Tail(descs), validOptionNames,
                  [acc EXCEPT !.invalidOptions = Append(@, option.name)])

\* from `const pandocExtensions` to the return statement
Finish(l) ==
  LET acc == UserOptions(parseExtensions(l.options),
                         ValidOptionNames(l.validOptions),
                         [fullName       |-> l.baseName,
                          extensions     |-> FormatExtensions(
                                               parseExtensions(l.formatOptions),
                                               EmptyMap),
                          invalidOptions |-> l.warnings.invalidOptions])
  IN  [baseName   |-> l.baseName,
       fullName   |-> acc.fullName,
       extensions |-> acc.extensions,
       warnings   |-> [invalidFormat  |-> l.warnings.invalidFormat,
                       invalidOptions |-> acc.invalidOptions]]

\* formatOptions = formatOptions.replace(/\+/g, '-') on the markdown list
DisableAll(markdownOptions) == ReplacePlus(markdownOptions)

Pending == [status |-> "pending"]
Fulfilled(v) == [status |-> "fulfilled", value |-> v]
Rejected(e) == [status |-> "rejected", error |-> e]

Awaiting == {"awaitMarkdown", "awaitDialect", "awaitFormat"}

\* as if the rejection were caught and the same call issued again
PropagateRetry(at, issued, e) ==
  [pc |-> at, outcome |-> Pending, calls |-> Append(issued, issued[Len(issued)])]

\* a rejected await in an async function: the function's promise is rejected
\* with the same error and nothing after the await runs
Propagate(at, issued, e) ==
  [pc |-> "failed", outcome |-> Rejected(e), calls |-> issued]

\* the host calls pandocFormat(pandoc, format): the function runs up to its
\* first await, having issued its first listExtensions call
Invoke(p) ==
  /\ pc[p] = "ready"
  /\ LET l == Enter(request[p])
     IN  /\ frame' = [frame EXCEPT ![FrameOf(p)] = l]
         /\ IF l.baseName \in DeltaFormats
            THEN /\ calls' = [calls EXCEPT ![p] = Append(@, markdown)]
                 /\ pc' = [pc EXCEPT ![p] = "awaitMarkdown"]
            ELSE /\ calls' = [calls EXCEPT ![p] = Append(@, l.baseName)]
                 /\ pc' = [pc EXCEPT ![p] = "awaitFormat"]
  /\ UNCHANGED <<engine, request, replies, outcome, withVars, tokenVars>>

\* listExtensions('markdown') resolves: disable everything, then ask for the
\* dialect's own list
MarkdownListed(p) ==
  /\ pc[p] = "awaitMarkdown"
  /\ replies' = [replies EXCEPT ![p] = Append(@, "ok")]
  /\ frame' = [frame EXCEPT ![FrameOf(p)].formatOptions = DisableAll(engine[markdown])]
  /\ calls' = [calls EXCEPT ![p] = Append(@, frame[FrameOf(p)].baseName)]
  /\ pc' = [pc EXCEPT ![p] = "awaitDialect"]
  /\ UNCHANGED <<engine, request, outcome, withVars, tokenVars>>

\* listExtensions(baseName) resolves for gfm/commonmark: layer it on and finish
DialectListed(p) ==
  /\ pc[p] = "awaitDialect"
  /\ replies' = [replies EXCEPT ![p] = Append(@, "ok")]
  /\ LET f == FrameOf(p)
         extraOptions == engine[frame[f].baseName]
         l == [frame[f] EXCEPT !.validOptions = extraOptions,
                               !.formatOptions = @ \o extraOptions]
     IN  /\ frame' = [frame EXCEPT ![f] = l]
         /\ outcome' = [outcome EXCEPT ![p] = Fulfilled(Finish(l))]
  /\ pc' = [pc EXCEPT ![p] = "done"]
  /\ UNCHANGED <<engine, request, calls, withVars, tokenVars>>

\* listExtensions(baseName) resolves for any other format: finish
FormatListed(p) ==
  /\ pc[p] = "awaitFormat"
  /\ replies' = [replies EXCEPT ![p] = Append(@, "ok")]
  /\ LET f == FrameOf(p)
         l == [frame[f] EXCEPT !.validOptions = engine[frame[f].baseName],
                               !.formatOptions = engine[frame[f].baseName]]
     IN  /\ frame' = [frame EXCEPT ![f] = l]
         /\ outcome' = [outcome EXCEPT ![p] = Fulfilled(Finish(l))]
  /\ pc' = [pc EXCEPT ![p] = "done"]
  /\ UNCHANGED <<engine, request, calls, withVars, tokenVars>>

\* the pending listExtensions call rejects
ListFailed(p) ==
  /\ pc[p] \in Awaiting
  /\ \E e \in EngineErrors :
       /\ replies' = [replies EXCEPT ![p] = Append(@, e)]
       /\ LET nxt == Propagate(pc[p], calls[p], e)
          IN  /\ pc' = [pc EXCEPT ![p] = nxt.pc]
              /\ outcome' = [outcome EXCEPT ![p] = nxt.outcome]
              /\ calls' = [calls EXCEPT ![p] = nxt.calls]
  /\ UNCHANGED <<engine, request, frame, withVars, tokenVars>>

-----------------------------------------------------------------------------
(* Inputs of the negotiation *)

Signs == {PLUS, MINUS}

\* names a user writes in a request: two real extensions, an unknown one,
\* and __proto__
UserNames == {footnotes, smart, bogus_ext, proto}

\* names the engine lists for markdown, and for gfm/commonmark: one only
\* markdown has, one both have, one only the dialect has; and a name that
\* matches [a-z_]+ and is no ordinary property name
MarkdownListNames == {footnotes, smart, proto}
DialectListNames == {smart, emoji}

\* option strings of at most n sign+name entries
RECURSIVE OptionStrings(_)
OptionStrings(n) ==
  IF n = 0 THEN {<<>>}
  ELSE LET shorter == OptionStrings(n - 1)
       IN  shorter \cup {o \o <<sg>> \o nm : o \in shorter, sg \in Signs, nm \in UserNames}

\* markdown_mmd stands for the supported markdown variants, docbook and the
\* empty string for the unsupported bases
RequestBases == {markdown, markdown_mmd, gfm, commonmark, docbook, <<>>}

Requests == {b \o o : b \in RequestBases, o \in OptionStrings(MaxOptions)}

\* listExtensions answers of at most n lines, one sign+name entry per line
RECURSIVE ExtensionLists(_, _)
ExtensionLists(names, n) ==
  IF n = 0 THEN {<<>>}
  ELSE LET shorter == ExtensionLists(names, n - 1)
       IN  shorter \cup {l \o <<sg>> \o nm \o <<NL>> : l \in shorter, sg \in Signs, nm \in names}

Line(sg, nm) == <<sg>> \o nm \o <<NL>>

\* a few whole answers, with a name the dialect does not mention, a name
\* listed twice, a name only the dialect has, and __proto__
SampleMarkdownLists ==
  { Line(PLUS, footnotes) \o Line(PLUS, smart),
    Line(MINUS, footnotes) \o Line(PLUS, smart) \o Line(MINUS, smart),
    Line(PLUS, footnotes),
    Line(PLUS, proto) \o Line(PLUS, smart) }

SampleDialectLists ==
  { Line(PLUS, smart) \o Line(PLUS, emoji),
    Line(MINUS, footnotes) \o Line(PLUS, footnotes),
    <<>> }

\* an engine answering ml for every markdown variant and dl for gfm/commonmark
EngineOf(ml, dl) ==
  [d \in SupportedFormats |-> IF d \in DeltaFormats THEN dl ELSE ml]

NoFrame == Enter(<<>>)

NoWith == [format |-> <<>>, prepend |-> <<>>, append |-> <<>>]

TokensUnused ==
  /\ heap = <<>>
  /\ heap0 = <<>>
  /\ tokens = <<>>
  /\ lastOp = [op |-> "none", f |-> "none"]
  /\ returned = <<>>
  /\ visited = <<>>

NotCalled == [called |-> FALSE, value |-> <<>>]

WithUnused ==
  /\ withArgs = NoWith
  /\ withResult = NotCalled

NegotiationUnused ==
  /\ engine = EngineOf(<<>>, <<>>)
  /\ pc = [p \in Invocations |-> "idle"]
  /\ request = [p \in Invocations |-> <<>>]
  /\ frame = [p \in Invocations |-> NoFrame]
  /\ calls = [p \in Invocations |-> <<>>]
  /\ replies = [p \in Invocations |-> <<>>]
  /\ outcome = [p \in Invocations |-> Pending]

NegotiationStart(active) ==
  /\ pc = [p \in Invocations |-> IF p \in active THEN "ready" ELSE "idle"]
  /\ frame = [p \in Invocations |-> NoFrame]
  /\ calls = [p \in Invocations |-> <<>>]
  /\ replies = [p \in Invocations |-> <<>>]
  /\ outcome = [p \in Invocations |-> Pending]

\* one negotiation, any request of the grammar, a sample engine
Init ==
  /\ engine \in {EngineOf(ml, dl) : ml \in SampleMarkdownLists, dl \in SampleDialectLists}
  /\ \E r \in Requests : request = [p \in Invocations |-> IF p = 1 THEN r ELSE <<>>]
  /\ NegotiationStart({1})
  /\ WithUnused
  /\ TokensUnused

Next ==
  \/ \E p \in Invocations : Invoke(p)
  \/ \E p \in Invocations : MarkdownListed(p)
  \/ \E p \in Invocations : DialectListed(p)
  \/ \E p \in Invocations : FormatListed(p)
  \/ \E p \in Invocations : ListFailed(p)

Spec == Init /\ [][Next]_vars

\* one negotiation of a bare base name, any engine answers
InitLists ==
  /\ engine \in {EngineOf(ml, dl) : ml \in ExtensionLists(MarkdownListNames, MaxListLen),
                                    dl \in ExtensionLists(DialectListNames, MaxListLen)}
  /\ \E r \in SupportedFormats \cup {docbook} :
       request = [p \in Invocations |-> IF p = 1 THEN r ELSE <<>>]
  /\ NegotiationStart({1})
  /\ WithUnused
  /\ TokensUnused

SpecLists == InitLists /\ [][Next]_vars

\* requests the host issues together
ConcurrentRequests ==
  { markdown \o <<PLUS>> \o footnotes,
    markdown \o <<MINUS>> \o smart \o <<PLUS>> \o bogus_ext,
    gfm \o <<PLUS>> \o smart,
    commonmark,
    docbook \o <<PLUS>> \o bogus_ext }

\* every invocation in flight, interleaved at the awaits
InitConcurrent ==
  /\ engine \in {EngineOf(ml, dl) : ml \in SampleMarkdownLists, dl \in SampleDialectLists}
  /\ request \in [Invocations -> ConcurrentRequests]
  /\ NegotiationStart(Invocations)
  /\ WithUnused
  /\ TokensUnused

SpecConcurrent == InitConcurrent /\ [][Next]_vars

-----------------------------------------------------------------------------
(* pandocFormatWith as an operation *)

Deltas == {<<>>, <<PLUS, "x">>, <<MINUS, "y">>}

FormatWith ==
  /\ ~withResult.called
  /\ withResult' = [called |-> TRUE,
                    value |-> pandocFormatWith(withArgs.format, withArgs.prepend,
                                               withArgs.append)]
  /\ UNCHANGED <<withArgs, negotiationVars, tokenVars>>

InitWith ==
  /\ withArgs \in [format : Requests, prepend : Deltas, append : Deltas]
  /\ withResult = NotCalled
  /\ NegotiationUnused
  /\ TokensUnused

NextWith == FormatWith

SpecWith == InitWith /\ [][NextWith]_vars

-----------------------------------------------------------------------------
(* Vocabulary of the properties: the request grammar base (('+'|'-') name)* *)

\* 1-based position of the first '+' or '-' of s, 0 if it has none
FirstSign(s) ==
  IF \E i \in 1..Len(s) : s[i] \in Signs
  THEN CHOOSE i \in 1..Len(s) : s[i] \in Signs /\ \A j \in 1..(i-1) : s[j] \notin Signs
  ELSE 0

\* the part of a request before its first sign
BaseOf(s) == IF FirstSign(s) = 0 THEN s ELSE SubSeq(s, 1, FirstSign(s) - 1)

\* the part of a request from its first sign on
OptionsOf(s) == IF FirstSign(s) = 0 THEN <<>> ELSE SubSeq(s, FirstSign(s), Len(s))

NamesOf(descs) == {descs[i].name : i \in 1..Len(descs)}

\* the sign of the last entry of descs that names n
LastEnabled(descs, n) ==
  LET last == CHOOSE i \in 1..Len(descs) :
                /\ descs[i].name = n
                /\ \A j \in (i+1)..Len(descs) : descs[j].name # n
  IN  descs[last].enabled

\* "+name" / "-name" for every entry, in order
RECURSIVE Rendered(_)
Rendered(descs) ==
  IF descs = <<>> THEN <<>>
  ELSE <<IF Head(descs).enabled THEN PLUS ELSE MINUS>> \o Head(descs).name
       \o Rendered(Tail(descs))

Started(p) == pc[p] \notin {"idle", "ready"}
Done(p) == pc[p] = "done"
Failed(p) == pc[p] = "failed"

MarkdownFootnotesSmart == markdown \o <<PLUS>> \o footnotes \o <<MINUS>> \o smart

-----------------------------------------------------------------------------
(* Properties of the negotiation *)

\* C1: pandocFormat takes as base the part of the request before its first
\* '+' or '-', whichever comes first, and the rest as options; for
\* "markdown+footnotes-smart", with footnotes and smart valid for markdown,
\* the result is baseName "markdown", no invalidFormat, footnotes on, smart
\* off, fullName "markdown+footnotes-smart", no invalidOptions.
C1_SplitsAtFirstSign ==
  \A p \in Invocations :
    /\ Started(p) =>
         frame[FrameOf(p)].split = [format |-> BaseOf(request[p]),
                                    options |-> OptionsOf(request[p])]
    /\ ( /\ Done(p)
         /\ request[p] = MarkdownFootnotesSmart
         /\ {footnotes, smart} \subseteq NamesOf(parseExtensions(engine[markdown])) )
       => /\ outcome[p].value.baseName = markdown
          /\ outcome[p].value.warnings.invalidFormat = <<>>
          /\ outcome[p].value.extensions[footnotes] = TRUE
          /\ outcome[p].value.extensions[smart] = FALSE
          /\ outcome[p].value.fullName = MarkdownFootnotesSmart
          /\ outcome[p].value.warnings.invalidOptions = <<>>

\* C2: a completed negotiation returns a baseName of the allow-list: the
\* requested base itself, with no invalidFormat, when that is on the list,
\* and otherwise "markdown" with invalidFormat the rejected base; the engine
\* is never asked about the rejected base.
C2_BaseNameOnAllowList ==
  \A p \in Invocations : Done(p) =>
    LET v == outcome[p].value
        base == BaseOf(request[p])
    IN  /\ v.baseName \in SupportedFormats
        /\ IF base \in SupportedFormats
           THEN v.baseName = base /\ v.warnings.invalidFormat = <<>>
           ELSE /\ v.baseName = markdown
                /\ v.warnings.invalidFormat = base
                /\ \A i \in 1..Len(calls[p]) : calls[p][i] # base
        /\ calls[p][Len(calls[p])] = v.baseName

\* C3: fullName is baseName followed by the user's options that the resolved
\* dialect's own list names, in the user's order with the user's signs; the
\* names of the user's other options are, in order, warnings.invalidOptions.
C3_FullNameKeepsValidOptions ==
  \A p \in Invocations : Done(p) =>
    LET v == outcome[p].value
        user == parseExtensions(OptionsOf(request[p]))
        own == NamesOf(parseExtensions(engine[v.baseName]))
        IsValid(o) == o.name \in own
        IsInvalid(o) == o.name \notin own
        invalid == SelectSeq(user, IsInvalid)
    IN  /\ v.fullName = v.baseName \o Rendered(SelectSeq(user, IsValid))
        /\ v.warnings.invalidOptions = [i \in 1..Len(invalid) |-> invalid[i].name]

\* C4: for gfm/commonmark without user options the extensions map has an
\* entry for every name of the markdown list and of the dialect's own list,
\* true exactly when the name's last entry in the dialect's own list is '+';
\* for any other format the map is the format's own list, last entry winning.
C4_DialectExtensions ==
  \A p \in Invocations :
    (Done(p) /\ parseExtensions(frame[FrameOf(p)].options) = <<>>) =>
      LET v == outcome[p].value
          own == parseExtensions(engine[v.baseName])
          md == parseExtensions(engine[markdown])
      IN  IF v.baseName \in DeltaFormats
          THEN /\ DOMAIN v.extensions = NamesOf(md) \cup NamesOf(own)
               /\ \A n \in DOMAIN v.extensions :
                    v.extensions[n] = (n \in NamesOf(own) /\ LastEnabled(own, n))
          ELSE /\ DOMAIN v.extensions = NamesOf(own)
               /\ \A n \in DOMAIN v.extensions : v.extensions[n] = LastEnabled(own, n)

\* C5: a failed listExtensions call ends the invocation in failure with that
\* same error and without a result, and no further call is issued (no retry;
\* for gfm/commonmark a failed markdown query means the dialect is never
\* queried); a successful invocation issued exactly <<baseName>>, or
\* <<markdown, baseName>> for gfm/commonmark.
C5_FailurePropagates ==
  \A p \in Invocations :
    /\ (\E i \in 1..Len(replies[p]) : replies[p][i] \in EngineErrors) =>
         /\ Failed(p)
         /\ Len(calls[p]) = Len(replies[p])
         /\ \A i \in 1..(Len(replies[p]) - 1) : replies[p][i] = "ok"
         /\ outcome[p] = Rejected(replies[p][Len(replies[p])])
    /\ Failed(p) => /\ outcome[p].status = "rejected"
                    /\ "value" \notin DOMAIN outcome[p]
                    /\ replies[p][Len(replies[p])] \in EngineErrors
    /\ Done(p) =>
         /\ outcome[p].status = "fulfilled"
         /\ \A i \in 1..Len(replies[p]) : replies[p][i] = "ok"
         /\ calls[p] = IF outcome[p].value.baseName \in DeltaFormats
                       THEN <<markdown, outcome[p].value.baseName>>
                       ELSE <<outcome[p].value.baseName>>

\* gfm: the markdown query failed, and the gfm query was never issued
C5_Witness ==
  /\ Failed(1)
  /\ frame[FrameOf(1)].baseName = gfm
  /\ calls[1] = <<markdown>>
  /\ replies[1] = <<"EPIPE">>
  /\ outcome[1] = Rejected("EPIPE")

\* pandocFormat run on its own, every await resolving
RunAlone(eng, format) ==
  LET l == Enter(format)
  IN  IF l.baseName \in DeltaFormats
      THEN Finish([l EXCEPT !.validOptions = eng[l.baseName],
                            !.formatOptions = DisableAll(eng[markdown]) \o eng[l.baseName]])
      ELSE Finish([l EXCEPT !.validOptions = eng[l.baseName],
                            !.formatOptions = eng[l.baseName]])

\* C10: invocations in flight together, interleaved in any order at their
\* awaits, each return what they return when run alone against the engine.
C10_NoInterference ==
  \A p \in Invocations :
    Done(p) => outcome[p] = Fulfilled(RunAlone(engine, request[p]))

\* invocation 2 (gfm) ran to completion between invocation 1's call and its
\* answer, and invocation 1 (markdown, with a warning) then completed
C10_Witness ==
  /\ Done(1) /\ Done(2)
  /\ outcome[1].value.baseName = markdown
  /\ outcome[1].value.warnings.invalidOptions = <<bogus_ext>>
  /\ outcome[2].value.baseName = gfm
  /\ outcome[2].value.warnings.invalidOptions = <<>>
  /\ outcome[2].value.extensions # outcome[1].value.extensions

\* C6: pandocFormatWith returns base + prepend + options + append, base being
\* the part of format before its first '+' or '-' and options the rest.
C6_DeltaAroundOptions ==
  withResult.called =>
    withResult.value = BaseOf(withArgs.format) \o withArgs.prepend
                       \o OptionsOf(withArgs.format) \o withArgs.append

-----------------------------------------------------------------------------
(* Token trees: PandocToken objects on a heap *)

\* values a `c` payload or an array element can hold
Absent == [k |-> "absent"]                \* no c property
Prim(s) == [k |-> "prim", v |-> s]        \* a string
Ref(a) == [k |-> "ref", a |-> a]          \* a token object
Arr(es) == [k |-> "arr", e |-> es]        \* an array

\* the object { t, c }
Token(t, c) == [t |-> t, c |-> c]

\* new object on the heap; its address is the heap's new length
Alloc(h, obj) == Append(h, obj)

\* JavaScript truthiness of a payload
Truthy(v) == v.k \in {"ref", "arr"} \/ (v.k = "prim" /\ v.v # <<>>)

ObjectObject == <<"[","o","b","j","e","c","t"," ","O","b","j","e","c","t","]">>

\* what Array.prototype.join makes of an element: undefined gives '', an
\* array is joined with commas, an object prints as [object Object]
RECURSIVE ToJoined(_)
RECURSIVE JoinComma(_)
ToJoined(v) ==
  CASE v.k = "absent" -> <<>>
    [] v.k = "prim" -> v.v
    [] v.k = "ref" -> ObjectObject
    [] v.k = "arr" -> JoinComma(v.e)
JoinComma(es) ==
  IF es = <<>> THEN <<>>
  ELSE IF Len(es) = 1 THEN ToJoined(es[1])
  ELSE ToJoined(es[1]) \o <<COMMA>> \o JoinComma(Tail(es))

-----------------------------------------------------------------------------
(* tokensCollectText *)

Threw == [threw |-> TRUE, text |-> <<>>]
Text(s) == [threw |-> FALSE, text |-> s]

\* c.map(elem => ...).join(''), c being whatever the caller passed: calling
\* .map on anything but an array is a TypeError
RECURSIVE tokensCollectText(_, _)
RECURSIVE CollectElems(_, _)
tokensCollectText(h, c) ==
  IF c.k # "arr" THEN Threw ELSE CollectElems(h, c.e)
CollectElems(h, es) ==
  IF es = <<>> THEN Text(<<>>)
  ELSE LET elem == Head(es)
           one == IF elem.k # "ref"
                  THEN Text(<<>>)               \* elem.t and elem.c are undefined
                  ELSE IF h[elem.a].t = "Str" THEN Text(ToJoined(h[elem.a].c))
                  ELSE IF h[elem.a].t = "Space" THEN Text(<<" ">>)
                  ELSE IF Truthy(h[elem.a].c) THEN tokensCollectText(h, h[elem.a].c)
                  ELSE Text(<<>>)
           rest == CollectElems(h, Tail(es))
       IN  IF one.threw \/ rest.threw THEN Threw ELSE Text(one.text \o rest.text)

-----------------------------------------------------------------------------
(* mapTokens, forEachToken *)

isToken(val) == val.k = "ref"

tokenHasChildren(h, a) == h[a].c.k = "arr"

\* callbacks a caller passes as f; none of them writes to an existing object
Transforms == {"same", "copy", "rewriteStr", "retagEmph"}

\* f(tok): the heap after the call and the address of the object returned
ApplyTransform(f, h, a) ==
  CASE f = "same" -> [h |-> h, a |-> a]
    [] f = "copy" -> [h |-> Alloc(h, Token(h[a].t, h[a].c)), a |-> Len(h) + 1]
    [] f = "rewriteStr" ->
         IF h[a].t = "Str"
         THEN [h |-> Alloc(h, Token("Str", Prim(<<"X">>))), a |-> Len(h) + 1]
         ELSE [h |-> h, a |-> a]
    [] f = "retagEmph" ->
         IF h[a].t = "Emph"
         THEN [h |-> Alloc(h, Token("Span", h[a].c)), a |-> Len(h) + 1]
         ELSE [h |-> h, a |-> a]

\* each returns the heap after the call, the value returned, and the
\* addresses f was called with, in call order
RECURSIVE mapToken(_, _, _)
RECURSIVE mapValue(_, _, _)
RECURSIVE MapElems(_, _, _)

mapToken(f, h, a) ==
  LET r == ApplyTransform(f, h, a)
      mappedTok == r.a
  IN  IF tokenHasChildren(r.h, mappedTok)
      THEN LET m == MapElems(f, r.h, r.h[mappedTok].c.e)
           IN  [h |-> [m.h EXCEPT ![mappedTok].c = Arr(m.v)],
                v |-> Ref(mappedTok),
                calls |-> <<a>> \o m.calls]
      ELSE [h |-> r.h, v |-> Ref(mappedTok), calls |-> <<a>>]

mapValue(f, h, val) ==
  IF isToken(val) THEN mapToken(f, h, val.a)
  ELSE IF val.k = "arr"
       THEN LET m == MapElems(f, h, val.e)
            IN  [h |-> m.h, v |-> Arr(m.v), calls |-> m.calls]
       ELSE [h |-> h, v |-> val, calls |-> <<>>]

\* Array.prototype.map(mapValue): left to right, into a new array
MapElems(f, h, es) ==
  IF es = <<>> THEN [h |-> h, v |-> <<>>, calls |-> <<>>]
  ELSE LET first == mapValue(f, h, Head(es))
           rest == MapElems(f, first.h, Tail(es))
       IN  [h |-> rest.h, v |-> <<first.v>> \o rest.v, calls |-> first.calls \o rest.calls]

\* tokens.map(mapToken): every element of the top-level array is a token
RECURSIVE MapTop(_, _, _)
MapTop(f, h, es) ==
  IF es = <<>> THEN [h |-> h, v |-> <<>>, calls |-> <<>>]
  ELSE LET first == mapToken(f, h, Head(es).a)
           rest == MapTop(f, first.h, Tail(es))
       IN  [h |-> rest.h, v |-> <<first.v>> \o rest.v, calls |-> first.calls \o rest.calls]

mapTokens(f, h, toks) ==
  LET m == MapTop(f, h, toks.e)
  IN  [h |-> m.h, v |-> Arr(m.v), calls |-> m.calls]

\* mapTokens with tok => { f(tok); return tok; }; returns nothing
forEachToken(h, toks) == mapTokens("same", h, toks)

-----------------------------------------------------------------------------
(* Inputs of the tree utilities *)

\* a token written out as a tree, before it is put on the heap
Tree(t, c) == [k |-> "tok", t |-> t, c |-> c]

TextA == <<"a">>
TextB == <<"b", "c">>

\* tokens without children: literal text, a space, and a styling node with
\* no payload, a string payload and an empty string payload
LeafTrees ==
  { Tree("Str", Prim(TextA)), Tree("Str", Prim(TextB)), Tree("Space", Absent),
    Tree("Emph", Absent), Tree("Emph", Prim(TextA)), Tree("Emph", Prim(<<>>)) }

\* what a child array may hold: tokens, a string, an array of tokens
ArrayElems ==
  LeafTrees \cup {Prim(TextB)} \cup {Arr(<<>>)} \cup {Arr(<<x>>) : x \in {Tree("Str", Prim(TextA)), Tree("Space", Absent)}}

RECURSIVE SeqsUpTo(_, _)
SeqsUpTo(S, n) ==
  IF n = 0 THEN {<<>>}
  ELSE LET shorter == SeqsUpTo(S, n - 1)
       IN  shorter \cup {Append(q, x) : q \in shorter, x \in S}

\* styling nodes over a child array, or over a single nested node
ParentTrees ==
  {Tree("Emph", Arr(es)) : es \in SeqsUpTo(ArrayElems, MaxArrayLen)}
  \cup {Tree("Emph", x) : x \in LeafTrees}

\* two levels of nesting
DeepTrees ==
  { Tree("Para", Arr(<<Tree("Emph", Arr(<<Tree("Str", Prim(TextA)), Tree("Space", Absent)>>)),
                        Tree("Str", Prim(TextB))>>)),
    Tree("Para", Arr(<<Arr(<<Tree("Emph", Arr(<<Tree("Str", Prim(TextA))>>))>>)>>)),
    Tree("Para", Tree("Emph", Arr(<<Tree("Str", Prim(TextA))>>))),
    Tree("Para", Arr(<<Tree("Emph", Tree("Str", Prim(TextB)))>>)) }

\* a first token of any shape, then leaves and deep trees
InputForests ==
  {<<x>> \o rest : x \in LeafTrees \cup ParentTrees \cup DeepTrees,
                   rest \in SeqsUpTo(LeafTrees \cup DeepTrees, MaxForestLen - 1)}

\* puts a written-out value on the heap, parents before children
RECURSIVE Load(_, _)
RECURSIVE LoadElems(_, _)
Load(h, v) ==
  CASE v.k = "tok" ->
         LET a == Len(h) + 1
             r == Load(Alloc(h, Token(v.t, Absent)), v.c)
         IN  [h |-> [r.h EXCEPT ![a].c = r.v], v |-> Ref(a)]
    [] v.k = "arr" ->
         LET r == LoadElems(h, v.e) IN [h |-> r.h, v |-> Arr(r.v)]
    [] OTHER -> [h |-> h, v |-> v]
LoadElems(h, es) ==
  IF es = <<>> THEN [h |-> h, v |-> <<>>]
  ELSE LET first == Load(h, Head(es))
           rest == LoadElems(first.h, Tail(es))
       IN  [h |-> rest.h, v |-> <<first.v>> \o rest.v]

InitTokens ==
  /\ \E forest \in InputForests :
       LET r == Load(<<>>, Arr(forest))
       IN  heap = r.h /\ heap0 = r.h /\ tokens = r.v
  /\ lastOp = [op |-> "none", f |-> "none"]
  /\ returned = <<>>
  /\ visited = <<>>
  /\ NegotiationUnused
  /\ WithUnused

CollectText ==
  /\ lastOp.op = "none"
  /\ lastOp' = [op |-> "tokensCollectText", f |-> "none"]
  /\ returned' = tokensCollectText(heap, tokens)
  /\ UNCHANGED <<heap, heap0, tokens, visited, negotiationVars, withVars>>

ForEach ==
  /\ lastOp.op = "none"
  /\ lastOp' = [op |-> "forEachToken", f |-> "visit"]
  /\ LET r == forEachToken(heap, tokens)
     IN  /\ heap' = r.h
         /\ visited' = r.calls
  /\ UNCHANGED <<heap0, tokens, returned, negotiationVars, withVars>>

MapTokens ==
  /\ lastOp.op = "none"
  /\ \E f \in Transforms :
       /\ lastOp' = [op |-> "mapTokens", f |-> f]
       /\ LET r == mapTokens(f, heap, tokens)
          IN  /\ heap' = r.h
              /\ returned' = r.v
  /\ UNCHANGED <<heap0, tokens, visited, negotiationVars, withVars>>

NextTokens ==
  \/ CollectText
  \/ ForEach
  \/ MapTokens

SpecTokens == InitTokens /\ [][NextTokens]_vars

-----------------------------------------------------------------------------
(* Properties of the tree utilities *)

\* every token reachable through payloads, parents first, left to right: a
\* payload that is a token is walked, an array is walked element by element
RECURSIVE PreOrder(_, _)
RECURSIVE PreOrderElems(_, _)
PreOrder(h, v) ==
  CASE v.k = "ref" -> <<v.a>> \o PreOrder(h, h[v.a].c)
    [] v.k = "arr" -> PreOrderElems(h, v.e)
    [] OTHER -> <<>>
PreOrderElems(h, es) ==
  IF es = <<>> THEN <<>> ELSE PreOrder(h, Head(es)) \o PreOrderElems(h, Tail(es))

\* a value with every token reference replaced by the token's tag and payload
RECURSIVE Deep(_, _)
Deep(h, v) ==
  CASE v.k = "ref" -> Tree(h[v.a].t, Deep(h, h[v.a].c))
    [] v.k = "arr" -> Arr([i \in 1..Len(v.e) |-> Deep(h, v.e[i])])
    [] OTHER -> v

\* the text of a node: Str gives its literal, Space a space, any other node
\* the text of its payload
\* the text of a payload: of an array of nodes the texts of the nodes in
\* order, of a nested node that node's text, of anything else nothing
RECURSIVE NodeText(_, _)
RECURSIVE PayloadText(_, _)
RECURSIVE NodesText(_, _)
NodeText(h, a) ==
  IF h[a].t = "Str" THEN ToJoined(h[a].c)
  ELSE IF h[a].t = "Space" THEN <<" ">>
  ELSE PayloadText(h, h[a].c)
PayloadText(h, c) ==
  CASE c.k = "ref" -> NodeText(h, c.a)
    [] c.k = "arr" -> NodesText(h, c.e)
    [] OTHER -> <<>>
NodesText(h, es) ==
  IF es = <<>> THEN <<>>
  ELSE (IF Head(es).k = "ref" THEN NodeText(h, Head(es).a) ELSE <<>>)
       \o NodesText(h, Tail(es))

\* C7: forEachToken calls visit exactly once for every node reachable through
\* child payloads, in pre-order: nodes in a child array, in arrays nested in
\* it, and a node that is itself its parent's payload.
C7_VisitsEveryNodePreOrder ==
  lastOp.op = "forEachToken" => visited = PreOrder(heap0, tokens)

\* C8: after mapTokens with a transform that writes nothing itself, every
\* node of the caller's tree has the tag and payload, child for child, that
\* it had before the call.
C8_InputTreeUntouched ==
  lastOp.op = "mapTokens" =>
    \A a \in 1..Len(heap0) : Deep(heap, Ref(a)) = Deep(heap0, Ref(a))

\* C9: tokensCollectText returns a string for every token sequence of the
\* data model: the concatenation of Str literals, a space per Space, and the
\* text of the payload of any other node that has one.
C9_CollectsPlainText ==
  lastOp.op = "tokensCollectText" =>
    /\ ~returned.threw
    /\ returned.text = PayloadText(heap0, tokens)

-----------------------------------------------------------------------------
(* What does hold where the properties above fail *)

\* a request with no '+' before its first '-' (or with no '-' at all)
SplitsAsWritten(s) == splitFormat(s).format = BaseOf(s)

\* Spec: whatever the request, base name, warnings and full name are the
\* claimed ones for the base and options that splitFormat computed.
ResolvesSplitFormatsParts ==
  \A p \in Invocations : Done(p) =>
    LET v == outcome[p].value
        split == splitFormat(request[p])
        user == parseExtensions(split.options)
        own == NamesOf(parseExtensions(engine[v.baseName]))
        IsValid(o) == o.name \in own
        IsInvalid(o) == o.name \notin own
        invalid == SelectSeq(user, IsInvalid)
    IN  /\ v.baseName \in SupportedFormats
        /\ IF split.format \in SupportedFormats
           THEN v.baseName = split.format /\ v.warnings.invalidFormat = <<>>
           ELSE /\ v.baseName = markdown
                /\ v.warnings.invalidFormat = split.format
                /\ \A i \in 1..Len(calls[p]) : calls[p][i] # split.format
        /\ v.fullName = v.baseName \o Rendered(SelectSeq(user, IsValid))
        /\ v.warnings.invalidOptions = [i \in 1..Len(invalid) |-> invalid[i].name]

\* SpecWith: formats that splitFormat splits as written get the deltas
\* around their options.
WithSplitAsWritten ==
  (withResult.called /\ SplitsAsWritten(withArgs.format)) => C6_DeltaAroundOptions

\* no token of the value has a token as its payload
RECURSIVE ArrayChildrenOnly(_, _)
ArrayChildrenOnly(h, v) ==
  CASE v.k = "ref" -> h[v.a].c.k # "ref" /\ ArrayChildrenOnly(h, h[v.a].c)
    [] v.k = "arr" -> \A i \in 1..Len(v.e) : ArrayChildrenOnly(h, v.e[i])
    [] OTHER -> TRUE

\* SpecTokens: forEachToken visits in pre-order every node that sits in a
\* child array or in an array nested in one, and leaves the tree as it was.
ForEachVisitsArrayChildren ==
  lastOp.op = "forEachToken" =>
    /\ ArrayChildrenOnly(heap0, tokens) => visited = PreOrder(heap0, tokens)
    /\ heap = heap0

\* SpecTokens: mapTokens leaves the input as it was when the transform
\* returns its argument for every node, or a new object for every node.
UniformTransformKeepsInput ==
  (lastOp.op = "mapTokens" /\ lastOp.f \in {"same", "copy"}) =>
    \A a \in 1..Len(heap0) : Deep(heap, Ref(a)) = Deep(heap0, Ref(a))

\* every node other than Str and Space has no payload, a falsy one or an array
RECURSIVE ArrayPayloadsOnly(_, _)
ArrayPayloadsOnly(h, v) ==
  CASE v.k = "ref" ->
         \/ h[v.a].t \in {"Str", "Space"}
         \/ /\ h[v.a].c.k = "arr" \/ ~Truthy(h[v.a].c)
            /\ ArrayPayloadsOnly(h, h[v.a].c)
    [] v.k = "arr" -> \A i \in 1..Len(v.e) : ArrayPayloadsOnly(h, v.e[i])
    [] OTHER -> TRUE

\* SpecTokens: tokensCollectText returns the claimed text when every node
\* other than Str and Space has no payload, a falsy one or an array.
CollectsTextOfArrayPayloads ==
  (lastOp.op = "tokensCollectText" /\ ArrayPayloadsOnly(heap0, tokens)) =>
    C9_CollectsPlainText

\* SpecLists: without user options the extensions map is the claimed one
\* for every listed name but __proto__, which never gets an entry.
DialectExtensionsExceptProto ==
  \A p \in Invocations :
    (Done(p) /\ parseExtensions(frame[FrameOf(p)].options) = <<>>) =>
      LET v == outcome[p].value
          own == parseExtensions(engine[v.baseName])
          md == parseExtensions(engine[markdown])
      IN  IF v.baseName \in DeltaFormats
          THEN /\ DOMAIN v.extensions = (NamesOf(md) \cup NamesOf(own)) \ {proto}
               /\ \A n \in DOMAIN v.extensions :
                    v.extensions[n] = (n \in NamesOf(own) /\ LastEnabled(own, n))
          ELSE /\ DOMAIN v.extensions = NamesOf(own) \ {proto}
               /\ \A n \in DOMAIN v.extensions : v.extensions[n] = LastEnabled(own, n)

=============================================================================
